---- MODULE Spec2Model ----
(***************************************************************************)
(* Model of main.py: the five request handlers of the Minecraft versions   *)
(* API, the process-wide latest-release cache they share, and the          *)
(* normalisation each handler applies to its upstream payload.             *)
(*                                                                         *)
(* Strings are sequences of one-character strings, so that startswith,    *)
(* split, substring search and the numeric-aware sort key are computed,    *)
(* not assumed.  Python's None is the value None below; the empty string   *)
(* is the empty sequence.  Version strings are ASCII: on ASCII text        *)
(* str.isdigit() and the pattern [0-9] agree.                              *)
(***************************************************************************)
EXTENDS Integers, Sequences, FiniteSets, TLC

VARIABLES
  req,       \* the requests: parameters, position in the handler, GETs made, response
  cache,     \* _latest_mc_version_cache
  now,       \* time.time()
  ticks,     \* how often the clock has advanced
  manifest,  \* the version manifest Mojang serves
  mver,      \* how often that manifest has changed
  docs       \* the payloads the four loader repositories serve

vars == <<req, cache, now, ticks, manifest, mver, docs>>

(* ------------------------------ bounds -------------------------------- *)

NumReq == 2
MaxTicks == 2
MaxPublish == 1
MaxManifestLen == 2
MaxForgeLen == 2
MaxEntryLen == 3
MaxQuiltLen == 3
Epoch == 10000

(* ------------------------- program constants -------------------------- *)

CACHE_DURATION_SECONDS == 3600

(* ----------------------------- strings -------------------------------- *)

None == <<"None">>

Truthy(x) == x # None /\ x # <<>>

RECURSIVE SeqsUpTo(_, _)
SeqsUpTo(S, n) ==
  IF n = 0 THEN {<<>>}
  ELSE LET P == SeqsUpTo(S, n - 1)
       IN  P \cup {Append(p, x) : p \in {q \in P : Len(q) = n - 1}, x \in S}

StartsWith(s, p) == Len(s) >= Len(p) /\ SubSeq(s, 1, Len(p)) = p

\* index of the first occurrence of sub in s, 0 when there is none
Find(s, sub) ==
  LET hits == {i \in 1..(Len(s) - Len(sub) + 1) : SubSeq(s, i, i + Len(sub) - 1) = sub}
  IN  IF hits = {} THEN 0 ELSE CHOOSE i \in hits : \A j \in hits : i <= j

Contains(s, sub) == Find(s, sub) # 0

\* index of the last occurrence of sub in s, 0 when there is none
FindLast(s, sub) ==
  LET hits == {i \in 1..(Len(s) - Len(sub) + 1) : SubSeq(s, i, i + Len(sub) - 1) = sub}
  IN  IF hits = {} THEN 0 ELSE CHOOSE i \in hits : \A j \in hits : i >= j

\* s.split(sep)[-1]: the split without its limit
SplitLast(s, sep) ==
  LET i == FindLast(s, sep)
  IN  IF i = 0 THEN s ELSE SubSeq(s, i + Len(sep), Len(s))

\* s.split(sep, 1)[-1]
SplitOnceLast(s, sep) ==
  LET i == Find(s, sep)
  IN  IF i = 0 THEN s ELSE SubSeq(s, i + Len(sep), Len(s))

RECURSIVE Reverse(_)
Reverse(l) == IF l = <<>> THEN <<>> ELSE Append(Reverse(Tail(l)), Head(l))

Dash == <<"-">>
BetaTag == <<"-", "b", "e", "t", "a">>
PreTag == <<"-", "p", "r", "e">>
Release == <<"r", "e", "l", "e", "a", "s", "e">>
Snapshot == <<"s", "n", "a", "p", "s", "h", "o", "t">>
Bogus == <<"o", "l", "d">>

(* ------------------------ latest-release cache ------------------------ *)

\* a scan that takes the first entry whatever its type
FirstEntry(m) == IF m = <<>> THEN None ELSE Head(m).id

\* next((v["id"] for v in versions if v.get("type") == "release"), None)
RECURSIVE FirstRelease(_)
FirstRelease(m) ==
  IF m = <<>> THEN None
  ELSE IF Head(m).type = Release THEN Head(m).id
  ELSE FirstRelease(Tail(m))

\* the freshness test with its comparison turned around
FreshInverted(c, t) == Truthy(c.value) /\ (t - c.timestamp) > CACHE_DURATION_SECONDS

\* the freshness test of the cache, read at time t
Fresh(c, t) == Truthy(c.value) /\ (t - c.timestamp) < CACHE_DURATION_SECONDS

\* a cache update that stores the timestamp and leaves the value out
CacheUpdateNoValue(c, id, ct) == [value |-> c.value, timestamp |-> ct]

\* the cache after a successful fetch by a call that entered at time ct
CacheUpdate(c, id, ct) == [value |-> id, timestamp |-> ct]

(* --------------------------- normalisers ------------------------------ *)

\* a manifest entry: [id |-> string, type |-> string]
RECURSIVE ManifestFilter(_, _)
ManifestFilter(m, vt) ==
  IF m = <<>> THEN <<>>
  ELSE IF ~Truthy(vt) \/ Head(m).type = vt
       THEN <<Head(m).id>> \o ManifestFilter(Tail(m), vt)
       ELSE ManifestFilter(Tail(m), vt)

\* a Fabric item is the loader version it carries, or None when it carries none
RECURSIVE FabricVersions(_)
FabricVersions(data) ==
  IF data = <<>> THEN <<>>
  ELSE IF Head(data) # None
       THEN <<Head(data)>> \o FabricVersions(Tail(data))
       ELSE FabricVersions(Tail(data))

Digits == {"0", "1", "2", "3", "4", "5", "6", "7", "8", "9"}

DigitVal(c) ==
  CASE c = "0" -> 0 [] c = "1" -> 1 [] c = "2" -> 2 [] c = "3" -> 3 [] c = "4" -> 4
    [] c = "5" -> 5 [] c = "6" -> 6 [] c = "7" -> 7 [] c = "8" -> 8 [] c = "9" -> 9

\* code points of the characters version strings are built from
Ord(c) ==
  CASE c = "-" -> 45 [] c = "." -> 46 [] c \in Digits -> 48 + DigitVal(c)
    [] c = "a" -> 97 [] c = "b" -> 98 [] c = "e" -> 101 [] c = "p" -> 112
    [] c = "r" -> 114 [] c = "t" -> 116 [] OTHER -> 127

\* length of the longest prefix of s made of digits (d = TRUE) or of non-digits
RECURSIVE RunLen(_, _)
RunLen(s, d) ==
  IF s = <<>> \/ ((Head(s) \in Digits) # d) THEN 0 ELSE 1 + RunLen(Tail(s), d)

\* re.split('([0-9]+)', s): non-digit run, digit run, non-digit run, ...
RECURSIVE ReSplit(_)
ReSplit(s) ==
  LET n == RunLen(s, FALSE)
      rest == SubSeq(s, n + 1, Len(s))
      d == RunLen(rest, TRUE)
  IN  IF rest = <<>> THEN <<SubSeq(s, 1, n)>>
      ELSE <<SubSeq(s, 1, n), SubSeq(rest, 1, d)>> \o ReSplit(SubSeq(rest, d + 1, Len(rest)))

\* int(u) for a run of digits
RECURSIVE IntOf(_)
IntOf(u) == IF u = <<>> THEN 0 ELSE 10 * IntOf(SubSeq(u, 1, Len(u) - 1)) + DigitVal(u[Len(u)])

\* u.isdigit()
IsDigitStr(u) == u # <<>> /\ \A i \in 1..Len(u) : u[i] \in Digits

\* a key that leaves the digit runs as text
SortKeyText(s) ==
  LET t == ReSplit(s)
  IN  [i \in 1..Len(t) |-> [int |-> FALSE, n |-> 0, s |-> t[i]]]

\* [int(u) if u.isdigit() else u for u in re.split('([0-9]+)', s)]
SortKey(s) ==
  LET t == ReSplit(s)
  IN  [i \in 1..Len(t) |->
        IF IsDigitStr(t[i]) THEN [int |-> TRUE, n |-> IntOf(t[i]), s |-> <<>>]
        ELSE [int |-> FALSE, n |-> 0, s |-> t[i]]]

\* Python's str comparison: -1, 0 or 1
RECURSIVE CmpStr(_, _)
CmpStr(a, b) ==
  IF a = <<>> /\ b = <<>> THEN 0
  ELSE IF a = <<>> THEN -1
  ELSE IF b = <<>> THEN 1
  ELSE IF Ord(Head(a)) < Ord(Head(b)) THEN -1
  ELSE IF Ord(Head(a)) > Ord(Head(b)) THEN 1
  ELSE CmpStr(Tail(a), Tail(b))

\* comparison of two key elements; 2 stands for the TypeError of int against str
CmpElem(x, y) ==
  IF x.int # y.int THEN 2
  ELSE IF x.int THEN (IF x.n < y.n THEN -1 ELSE IF x.n > y.n THEN 1 ELSE 0)
  ELSE CmpStr(x.s, y.s)

\* Python's list comparison of two keys
RECURSIVE CmpKey(_, _)
CmpKey(a, b) ==
  IF a = <<>> /\ b = <<>> THEN 0
  ELSE IF a = <<>> THEN -1
  ELSE IF b = <<>> THEN 1
  ELSE LET c == CmpElem(Head(a), Head(b))
       IN  IF c # 0 THEN c ELSE CmpKey(Tail(a), Tail(b))

CmpVersion(a, b) == CmpKey(SortKey(a), SortKey(b))

\* x placed in the descending list l after every element that is not below it
RECURSIVE InsertDesc(_, _)
InsertDesc(l, x) ==
  IF l = <<>> THEN <<x>>
  ELSE IF CmpVersion(Head(l), x) = -1 THEN <<x>> \o l
  ELSE <<Head(l)>> \o InsertDesc(Tail(l), x)

\* list.sort(key=..., reverse=True): stable, equal keys keep their order
RECURSIVE SortDesc(_)
SortDesc(l) ==
  IF l = <<>> THEN <<>>
  ELSE InsertDesc(SortDesc(SubSeq(l, 1, Len(l) - 1)), l[Len(l)])

QuiltKeep(v) == Truthy(v) /\ ~Contains(v, BetaTag) /\ ~Contains(v, PreTag)

RECURSIVE QuiltStable(_)
QuiltStable(doc) ==
  IF doc = <<>> THEN <<>>
  ELSE IF QuiltKeep(Head(doc)) THEN <<Head(doc)>> \o QuiltStable(Tail(doc))
  ELSE QuiltStable(Tail(doc))

QuiltVersions(doc) == SortDesc(QuiltStable(doc))

ForgeKeep(v, target) == Truthy(v) /\ StartsWith(v, target \o Dash)

ForgeElement(v, target, version_only) ==
  IF version_only THEN SplitOnceLast(v, target \o Dash) ELSE v

RECURSIVE ForgeVersions(_, _, _)
ForgeVersions(doc, target, version_only) ==
  IF doc = <<>> THEN <<>>
  ELSE IF ForgeKeep(Head(doc), target)
       THEN <<ForgeElement(Head(doc), target, version_only)>>
              \o ForgeVersions(Tail(doc), target, version_only)
       ELSE ForgeVersions(Tail(doc), target, version_only)

NeoForgeKeep(v, vt) == Truthy(v) /\ ~(vt = Release /\ Contains(v, BetaTag))

RECURSIVE NeoForgeSelect(_, _)
NeoForgeSelect(doc, vt) ==
  IF doc = <<>> THEN <<>>
  ELSE IF NeoForgeKeep(Head(doc), vt) THEN <<Head(doc)>> \o NeoForgeSelect(Tail(doc), vt)
  ELSE NeoForgeSelect(Tail(doc), vt)

NeoForgeVersions(doc, vt) == Reverse(NeoForgeSelect(doc, vt))

(* ------------------------------ upstream ------------------------------ *)

\* what a GET can come back with: a 2xx payload, a non-2xx status
\* (raise_for_status), a transport failure (httpx.RequestError), or a 2xx
\* payload that does not parse (json() / ET.fromstring raise)
UpstreamOutcomes ==
  { [kind |-> "ok", code |-> 200],
    [kind |-> "status", code |-> 404],
    [kind |-> "status", code |-> 503],
    [kind |-> "network", code |-> 0],
    [kind |-> "malformed", code |-> 200] }

\* the status of the HTTPException an except clause raises for a failed GET
ErrorStatus(o) == IF o.kind = "status" THEN o.code ELSE 500

NoOutcome == [kind |-> "none", code |-> 0]

ManifestUrl == [host |-> "manifest", path |-> <<>>]

\* an upstream address that carries the target version for NeoForge as well
EndpointUrlWithTarget(ep, target) ==
  IF ep = "versions" THEN ManifestUrl
  ELSE [host |-> ep, path |-> IF ep \in {"fabric", "neoforge"} THEN target ELSE <<>>]

EndpointUrl(ep, target) ==
  IF ep = "versions" THEN ManifestUrl
  ELSE [host |-> ep, path |-> IF ep = "fabric" THEN target ELSE <<>>]

(* ------------------------------ requests ------------------------------ *)

Reqs == 1..NumReq

Defaulting == {"fabric", "forge", "neoforge"}

EmptyCache == [value |-> None, timestamp |-> 0]

Idle ==
  [pc |-> "idle", ep |-> "none", mv |-> None, vt |-> None, vo |-> FALSE,
   ct |-> -1, seen |-> EmptyCache, lat |-> "none", mres |-> "none", target |-> None,
   gets |-> <<>>, fres |-> NoOutcome, status |-> 0, body |-> <<>>]

\* raise HTTPException(status_code=code)
Reject(q, code) == [q EXCEPT !.pc = "done", !.status = code]

\* await http_client.get(url) of the handler's own upstream
StartFetch(q) ==
  [q EXCEPT !.pc = "fetching", !.gets = Append(@, EndpointUrl(q.ep, q.target))]

\* the version_type check of get_neoforge_versions
NeoForgeTypeOk(vt) == ~(Truthy(vt) /\ vt # Release)

\* the version_type check of get_minecraft_versions
VersionsTypeOk(vt) == ~(Truthy(vt) /\ vt \notin {Release, Snapshot})

\* the handler from the point where target_mc_version is known
AfterTarget(q) ==
  IF q.ep = "neoforge" /\ ~NeoForgeTypeOk(q.vt) THEN Reject(q, 400)
  ELSE StartFetch(q)

\* get_latest_minecraft_release_version up to its return or its await;
\* lat is where the call stands: none (not called), hit, wait, ok, fail;
\* mres is what its manifest GET came back with, fres what the handler's own
\* GET came back with
EnterLatest(q, c, t) ==
  LET q1 == [q EXCEPT !.ct = t]
  IN  IF Fresh(c, t) THEN AfterTarget([q1 EXCEPT !.lat = "hit", !.target = c.value])
      ELSE [q1 EXCEPT !.pc = "resolving", !.lat = "wait", !.gets = Append(@, ManifestUrl)]

\* a handler that resolves the latest release whether or not a version was given
BeginAlwaysResolves(q, c, t) ==
  IF q.ep = "versions"
  THEN (IF VersionsTypeOk(q.vt) THEN StartFetch(q) ELSE Reject(q, 400))
  ELSE IF q.ep = "quilt" THEN StartFetch(q)
  ELSE EnterLatest(q, c, t)

\* a handler from the arrival of the request to its first await or its response
Begin(q, c, t) ==
  IF q.ep = "versions"
  THEN (IF VersionsTypeOk(q.vt) THEN StartFetch(q) ELSE Reject(q, 400))
  ELSE IF q.ep = "quilt" THEN StartFetch(q)
  ELSE IF Truthy(q.mv) THEN AfterTarget([q EXCEPT !.target = q.mv])
  ELSE EnterLatest(q, c, t)

Arrive(r, ep, mv, vt, vo) ==
  /\ req[r].pc = "idle"
  /\ \A p \in Reqs : p < r => req[p].pc # "idle"
  /\ req' = [req EXCEPT ![r] =
       Begin([Idle EXCEPT !.ep = ep, !.mv = mv, !.vt = vt, !.vo = vo, !.seen = cache],
             cache, now)]
  /\ UNCHANGED <<cache, now, ticks, manifest, mver, docs>>

\* a resolution that serves the cached value when its refresh fails
ResolveReturnFallback(r, o) ==
  /\ req[r].pc = "resolving"
  /\ LET q == req[r]
         id == FirstRelease(manifest)
     IN  IF o.kind = "ok" /\ Truthy(id)
         THEN /\ cache' = CacheUpdate(cache, id, q.ct)
              /\ req' = [req EXCEPT ![r] =
                   AfterTarget([q EXCEPT !.lat = "ok", !.mres = o.kind, !.target = id])]
         ELSE /\ cache' = cache
              /\ req' = [req EXCEPT ![r] =
                   IF Truthy(cache.value)
                   THEN AfterTarget([q EXCEPT !.lat = "fail", !.mres = o.kind,
                                              !.target = cache.value])
                   ELSE Reject([q EXCEPT !.lat = "fail", !.mres = o.kind],
                               IF o.kind = "ok" THEN 500 ELSE ErrorStatus(o))]
  /\ UNCHANGED <<now, ticks, manifest, mver, docs>>

\* the manifest GET of get_latest_minecraft_release_version comes back
ResolveReturn(r, o) ==
  /\ req[r].pc = "resolving"
  /\ LET q == req[r]
         id == FirstRelease(manifest)
     IN  IF o.kind = "ok" /\ Truthy(id)
         THEN /\ cache' = CacheUpdate(cache, id, q.ct)
              /\ req' = [req EXCEPT ![r] =
                   AfterTarget([q EXCEPT !.lat = "ok", !.mres = o.kind, !.target = id])]
         ELSE /\ cache' = cache
              /\ req' = [req EXCEPT ![r] =
                   Reject([q EXCEPT !.lat = "fail", !.mres = o.kind],
                          IF o.kind = "ok" THEN 500 ELSE ErrorStatus(o))]
  /\ UNCHANGED <<now, ticks, manifest, mver, docs>>

\* the list a handler returns for a 2xx payload
Normalise(q) ==
  CASE q.ep = "versions" -> ManifestFilter(manifest, q.vt)
    [] q.ep = "fabric" -> FabricVersions(docs.fabric)
    [] q.ep = "quilt" -> QuiltVersions(docs.quilt)
    [] q.ep = "forge" -> ForgeVersions(docs.forge, q.target, q.vo)
    [] q.ep = "neoforge" -> NeoForgeVersions(docs.neoforge, q.vt)

\* the handler's own GET comes back
FetchReturn(r, o) ==
  /\ req[r].pc = "fetching"
  /\ LET q == req[r]
     IN  req' = [req EXCEPT ![r] =
           IF o.kind = "ok"
           THEN [q EXCEPT !.pc = "done", !.fres = o, !.status = 200,
                          !.body = Normalise(q)]
           ELSE Reject([q EXCEPT !.fres = o], ErrorStatus(o))]
  /\ UNCHANGED <<cache, now, ticks, manifest, mver, docs>>

(* ---------------------------- environment ----------------------------- *)

TickSteps == {1, CACHE_DURATION_SECONDS - 1}

Tick(d) ==
  /\ ticks < MaxTicks
  /\ now' = now + d
  /\ ticks' = ticks + 1
  /\ UNCHANGED <<req, cache, manifest, mver, docs>>

Publish(m) ==
  /\ mver < MaxPublish
  /\ m # manifest
  /\ manifest' = m
  /\ mver' = mver + 1
  /\ UNCHANGED <<req, cache, now, ticks, docs>>

(* ------------------------------- inputs ------------------------------- *)

V10 == <<"1", ".", "0">>
V11 == <<"1", ".", "1">>
V11a == <<"1", ".", "1", "a">>

Entry(id, type) == [id |-> id, type |-> type]

ManifestPool ==
  { <<Entry(V11a, Snapshot), Entry(V10, Release)>>,
    <<Entry(V11, Release), Entry(V10, Release)>>,
    <<Entry(V11a, Snapshot)>> }

MvSet == {None, <<>>, V10, V11}

VtSet == {None, Release, Snapshot, Bogus}

FixedDocs ==
  [fabric |-> << <<"0", ".", "9">>, None, <<"0", ".", "1", "0">> >>,
   quilt |-> << <<"0", ".", "9", ".", "0">>, <<"0", ".", "1", "0", ".", "0">>,
                <<"0", ".", "1", "0", ".", "0", "-", "b", "e", "t", "a">> >>,
   forge |-> << V10 \o <<"-", "1">>, V11 \o <<"-", "2">>, V10 \o <<"-">> \o V10 \o <<"-", "3">> >>,
   neoforge |-> << <<"1">>, <<"2", "-", "b", "e", "t", "a">>, <<"3">> >>]

(* --------------------------- specifications --------------------------- *)

\* the server with concurrent requests that leave minecraft_version out:
\* the callers of get_latest_minecraft_release_version
Init ==
  /\ req = [r \in Reqs |-> Idle]
  /\ cache = EmptyCache
  /\ now = Epoch
  /\ ticks = 0
  /\ manifest \in ManifestPool
  /\ mver = 0
  /\ docs = FixedDocs

ArriveDefaulting(r) ==
  \E ep \in Defaulting : Arrive(r, ep, None, None, FALSE)

Next ==
  \/ \E r \in Reqs : ArriveDefaulting(r)
  \/ \E r \in Reqs, o \in UpstreamOutcomes : ResolveReturn(r, o)
  \/ \E r \in Reqs, o \in UpstreamOutcomes : FetchReturn(r, o)
  \/ \E d \in TickSteps : Tick(d)
  \/ \E m \in ManifestPool : Publish(m)

Spec == Init /\ [][Next]_vars

\* two concurrent requests to the five endpoints with every combination of
\* query parameters, from a cache that is empty, or was filled by a
\* resolution just now, or was filled by one CACHE_DURATION_SECONDS ago
InitApi ==
  /\ req = [r \in Reqs |-> Idle]
  /\ cache \in {EmptyCache, CacheUpdate(EmptyCache, V10, Epoch),
               CacheUpdate(EmptyCache, V10, Epoch - CACHE_DURATION_SECONDS)}
  /\ now = Epoch
  /\ ticks = 0
  /\ manifest \in ManifestPool
  /\ mver = 0
  /\ docs = FixedDocs

ArriveAny(r) ==
  \/ \E vt \in VtSet : Arrive(r, "versions", None, vt, FALSE)
  \/ \E mv \in MvSet : Arrive(r, "fabric", mv, None, FALSE)
  \/ Arrive(r, "quilt", None, None, FALSE)
  \/ \E mv \in MvSet, vo \in BOOLEAN : Arrive(r, "forge", mv, None, vo)
  \/ \E mv \in MvSet, vt \in VtSet : Arrive(r, "neoforge", mv, vt, FALSE)

\* the two requests whose runs are compared
Pair == {1, 2}

NextApi ==
  \/ \E r \in Pair : ArriveAny(r)
  \/ \E r \in Pair, o \in UpstreamOutcomes : ResolveReturn(r, o)
  \/ \E r \in Pair, o \in UpstreamOutcomes : FetchReturn(r, o)

SpecApi == InitApi /\ [][NextApi]_vars

\* one call of get_latest_minecraft_release_version against every manifest
\* of at most MaxManifestLen entries
ManifestIds == {<<>>, V10, V11}

ManifestEntries == {Entry(id, type) : id \in ManifestIds, type \in {Release, Snapshot}}

InitManifest ==
  /\ req = [r \in Reqs |-> Idle]
  /\ cache \in {EmptyCache, CacheUpdate(EmptyCache, V10, Epoch)}
  /\ now = Epoch
  /\ ticks = 0
  /\ manifest \in SeqsUpTo(ManifestEntries, MaxManifestLen)
  /\ mver = 0
  /\ docs = FixedDocs

NextManifest ==
  \/ ArriveDefaulting(1)
  \/ \E o \in UpstreamOutcomes : ResolveReturn(1, o)
  \/ \E o \in UpstreamOutcomes : FetchReturn(1, o)
  \/ Tick(CACHE_DURATION_SECONDS)

SpecManifest == InitManifest /\ [][NextManifest]_vars

\* one Forge request against every version list of at most MaxForgeLen
\* entries of at most MaxEntryLen characters, and the list of the example
ForgeAlphabet == {"1", "-"}

V1201 == <<"1", ".", "2", "0", ".", "1">>

ExampleForgeDoc ==
  << <<"1", ".", "2", "0", ".", "1", "-", "4", "7", ".", "0", ".", "1">>,
     <<"1", ".", "1", "9", ".", "2", "-", "4", "5", ".", "0", ".", "0">>,
     <<"1", ".", "2", "0", ".", "1", "-", "4", "7", ".", "1", ".", "0">> >>

ForgeTargets == {<<"1">>, <<"1", "1">>, V1201}

\* every short entry, and longer ones in which "1-" occurs again after the prefix
ForgeEntries ==
  SeqsUpTo(ForgeAlphabet, MaxEntryLen)
    \cup {<<"1", "-", "1", "-">>, <<"1", "-", "1", "-", "1">>, <<"1", "1", "-", "1", "1", "-">>}

ForgeDocs == SeqsUpTo(ForgeEntries, MaxForgeLen) \cup {ExampleForgeDoc}

InitForge ==
  /\ req = [r \in Reqs |-> Idle]
  /\ cache = EmptyCache
  /\ now = Epoch
  /\ ticks = 0
  /\ manifest = <<Entry(V10, Release)>>
  /\ mver = 0
  /\ \E d \in ForgeDocs : docs = [FixedDocs EXCEPT !.forge = d]

NextForge ==
  \/ \E mv \in ForgeTargets, vo \in BOOLEAN : Arrive(1, "forge", mv, None, vo)
  \/ \E o \in UpstreamOutcomes : FetchReturn(1, o)

SpecForge == InitForge /\ [][NextForge]_vars

\* one Quilt request against every version list of at most MaxQuiltLen
\* entries drawn from QuiltEntries
QuiltEntries ==
  { <<>>, <<"0", ".", "9", ".", "0">>, <<"0", ".", "1", "0", ".", "0">>, <<"0", ".", "0", "9", ".", "0">>,
    <<"0", ".", "1", "0", ".", "0", "-", "b", "e", "t", "a">>,
    <<"0", ".", "9", ".", "0", "-", "p", "r", "e">>,
    <<"0", ".", "9", "a">>, <<"a">>, <<"1">>, <<"0", ".", "9">> }

InitQuilt ==
  /\ req = [r \in Reqs |-> Idle]
  /\ cache = EmptyCache
  /\ now = Epoch
  /\ ticks = 0
  /\ manifest = <<Entry(V10, Release)>>
  /\ mver = 0
  /\ \E d \in SeqsUpTo(QuiltEntries, MaxQuiltLen) : docs = [FixedDocs EXCEPT !.quilt = d]

NextQuilt ==
  \/ Arrive(1, "quilt", None, None, FALSE)
  \/ \E o \in UpstreamOutcomes : FetchReturn(1, o)

SpecQuilt == InitQuilt /\ [][NextQuilt]_vars

(* ------------------ the latest-release cache (Spec) ------------------- *)

\* the manifest GETs a request has made
ManifestGets(q) == Cardinality({k \in 1..Len(q.gets) : q.gets[k] = ManifestUrl})

\* the cache c held a value that had expired at time t
Expired(c, t) == c.value # None /\ t - c.timestamp >= CACHE_DURATION_SECONDS

(* C1: a call of get_latest_minecraft_release_version that finds a value in *)
(* the cache with now - timestamp < 3600 returns that value, makes no GET   *)
(* and leaves the cache as it is, whichever handler calls it.               *)
C1_FreshCacheIsReturned ==
  [][\A r \in Reqs :
       (/\ req[r].pc = "idle"
        /\ req'[r].pc # "idle"
        /\ req'[r].lat # "none"
        /\ cache.value # None
        /\ now - cache.timestamp < CACHE_DURATION_SECONDS)
       => (/\ req'[r].lat = "hit"
           /\ req'[r].target = cache.value
           /\ req'[r].ct = now
           /\ ManifestGets(req'[r]) = 0
           /\ cache' = cache)]_vars

\* a call answered from the cache some time after the cache was filled, while
\* the manifest names another release by now
C1_Witness ==
  \E r \in Reqs :
    /\ req[r].lat = "hit"
    /\ req[r].pc = "done"
    /\ req[r].status = 200
    /\ req[r].ct > req[r].seen.timestamp
    /\ req[r].target = req[r].seen.value
    /\ FirstRelease(manifest) # req[r].target
    /\ ManifestGets(req[r]) = 0

(* C2 as stated: any two calls that start within 3600 seconds of each      *)
(* other, the manifest unchanged, make at most one manifest GET together.  *)
C2_AnyTwoCallsShareOneFetch ==
  \A i, j \in Reqs :
    (/\ i # j
     /\ req[i].lat # "none"
     /\ req[j].lat # "none"
     /\ req[i].ct - req[j].ct < CACHE_DURATION_SECONDS
     /\ req[j].ct - req[i].ct < CACHE_DURATION_SECONDS
     /\ mver = 0)
    => ManifestGets(req[i]) + ManifestGets(req[j]) <= 1

(* C2 amended: two calls within 3600 seconds of each other make at most    *)
(* one manifest GET together when the second starts after the first has    *)
(* returned a value and the entry the first call stored has not been       *)
(* replaced by one with an older timestamp.                                *)
C2_SequentialCallsShareOneFetch ==
  [][\A i, j \in Reqs :
       (/\ i # j
        /\ req[i].lat \in {"hit", "ok"}
        /\ req[j].pc = "idle"
        /\ req'[j].pc # "idle"
        /\ req'[j].lat # "none"
        /\ now - req[i].ct < CACHE_DURATION_SECONDS
        /\ (req[i].lat = "ok" => cache.timestamp >= req[i].ct))
       => ManifestGets(req[i]) + ManifestGets(req'[j]) <= 1]_vars

\* a call that fetched, and a later call within the hour that did not
C2_Witness ==
  \E i, j \in Reqs :
    /\ req[i].lat = "ok"
    /\ req[j].lat = "hit"
    /\ req[j].ct > req[i].ct
    /\ req[j].ct - req[i].ct < CACHE_DURATION_SECONDS
    /\ req[j].seen.timestamp = req[i].ct
    /\ ManifestGets(req[i]) + ManifestGets(req[j]) = 1

(* C3: a call that finds an expired value in the cache and whose refresh   *)
(* fails ends in an error: it returns no value, the old one included, and  *)
(* its request is answered with an error status and no list.               *)
C3_ExpiredAndFailedIsAnError ==
  \A r \in Reqs :
    (req[r].lat = "fail" /\ Expired(req[r].seen, req[r].ct))
    => (/\ req[r].pc = "done"
        /\ req[r].target = None
        /\ req[r].status \notin {0, 200}
        /\ req[r].body = <<>>
        /\ req[r].gets = <<ManifestUrl>>)

\* an expired value in the cache and a refresh that found no release in the manifest
C3_Witness ==
  \E r \in Reqs :
    /\ req[r].lat = "fail"
    /\ Expired(req[r].seen, req[r].ct)
    /\ req[r].mres = "ok"
    /\ req[r].status = 500
    /\ cache = req[r].seen

(* C10 as stated: the timestamp of the cache never decreases.              *)
C10_TimestampNeverDecreases ==
  [][cache'.timestamp >= cache.timestamp]_vars

(* ---------------------- the endpoints (SpecApi) ----------------------- *)

\* a version_type outside the values the endpoint accepts
InvalidType(ep, vt) ==
  \/ ep = "versions" /\ vt \notin {None, Release, Snapshot}
  \/ ep = "neoforge" /\ vt \notin {None, Release}

(* C4 as stated: a request with an invalid version_type is answered with   *)
(* 400 and makes no GET, whatever minecraft_version and the cache are.     *)
C4_InvalidTypeRejectedBeforeAnyGet ==
  \A r \in Reqs :
    (req[r].pc # "idle" /\ InvalidType(req[r].ep, req[r].vt))
    => (req[r].pc = "done" /\ req[r].status = 400 /\ req[r].gets = <<>>)

\* two finished NeoForge requests with the same version_type, run from the
\* same cache, whose GETs were answered alike
SameNeoForgeRun(i, j) ==
  /\ req[i].ep = "neoforge" /\ req[j].ep = "neoforge"
  /\ req[i].pc = "done" /\ req[j].pc = "done"
  /\ req[i].vt = req[j].vt
  /\ req[i].seen = req[j].seen
  /\ req[i].fres = req[j].fres
  /\ (req[i].mres = req[j].mres \/ req[i].mres = "none" \/ req[j].mres = "none")

\* the same response, the same GETs, and the cache written by both or by neither
SameNeoForgeResult(i, j) ==
  /\ req[i].status = req[j].status
  /\ req[i].body = req[j].body
  /\ req[i].gets = req[j].gets
  /\ (req[i].lat = "ok") = (req[j].lat = "ok")

(* C5 as stated: two NeoForge requests that differ only in                 *)
(* minecraft_version give the same response, make the same GETs and leave  *)
(* the cache alike.                                                        *)
C5_VersionNeverMatters ==
  \A i, j \in Reqs : SameNeoForgeRun(i, j) => SameNeoForgeResult(i, j)

(* C5 amended: two NeoForge requests that differ only in                   *)
(* minecraft_version, both values non-empty, give the same response and    *)
(* make the same GETs, none of them to the manifest, and neither touches   *)
(* the cache; a request without a version first resolves the latest one.   *)
C5_GivenVersionNeverMatters ==
  /\ \A i, j \in Reqs :
       (SameNeoForgeRun(i, j) /\ Truthy(req[i].mv) /\ Truthy(req[j].mv))
       => SameNeoForgeResult(i, j)
  /\ \A r \in Reqs :
       (req[r].ep = "neoforge" /\ Truthy(req[r].mv))
       => (/\ req[r].lat = "none"
           /\ req[r].gets \in {<<>>, <<[host |-> "neoforge", path |-> <<>>]>>})
  /\ \A r \in Reqs :
       (req[r].ep = "neoforge" /\ ~Truthy(req[r].mv)) => req[r].lat # "none"

\* two answered NeoForge requests for two different versions
C5_Witness ==
  \E i, j \in Reqs :
    /\ SameNeoForgeRun(i, j)
    /\ req[i].mv = V10
    /\ req[j].mv = V11
    /\ req[i].vt = Release
    /\ req[i].status = 200
    /\ req[i].body = << <<"3">>, <<"1">> >>
    /\ req[j].body = req[i].body

(* C6 as stated: every request makes at most one GET.                      *)
C6_AtMostOneGet ==
  \A r \in Reqs : Len(req[r].gets) <= 1

\* the request called get_latest_minecraft_release_version and found a fresh value
SawFresh(q) ==
  /\ q.ct # -1
  /\ q.seen.value # None
  /\ q.ct - q.seen.timestamp < CACHE_DURATION_SECONDS

(* C6 amended: every request makes at most two GETs, and two only when it  *)
(* is a Fabric, Forge or NeoForge request without a minecraft_version that *)
(* finds the cache empty or expired: the manifest first, its own upstream  *)
(* after a successful resolution.  A request waits only on the GET it made *)
(* last.                                                                   *)
C6_AtMostTwoGets ==
  \A r \in Reqs :
    LET q == req[r]
    IN  /\ Len(q.gets) <= 2
        /\ Len(q.gets) = 2 =>
             /\ q.ep \in Defaulting
             /\ ~Truthy(q.mv)
             /\ ~SawFresh(q)
             /\ q.lat = "ok"
             /\ q.gets[1] = ManifestUrl
             /\ q.gets[2].host = q.ep
        /\ (q.ep \in {"versions", "quilt"} \/ Truthy(q.mv) \/ SawFresh(q)) =>
             Len(q.gets) <= 1
        /\ q.pc = "resolving" => q.gets = <<ManifestUrl>>
        /\ q.pc = "fetching" =>
             q.gets[Len(q.gets)].host = (IF q.ep = "versions" THEN "manifest" ELSE q.ep)

\* an answered request that made two GETs
C6_Witness ==
  \E r \in Reqs :
    /\ req[r].pc = "done"
    /\ req[r].status = 200
    /\ req[r].ep = "forge"
    /\ Len(req[r].gets) = 2
    /\ Expired(req[r].seen, req[r].ct)

(* ------------------- the manifest scan (SpecManifest) ------------------ *)

HasRelease(m) == \E k \in 1..Len(m) : m[k].type = Release

FirstReleaseIndex(m) ==
  CHOOSE k \in 1..Len(m) : m[k].type = Release /\ \A j \in 1..(k - 1) : m[j].type # Release

\* the call fetched, returned id and stored it with its own timestamp
Resolved(q, id) ==
  /\ q.lat = "ok"
  /\ q.target = id
  /\ cache = [value |-> id, timestamp |-> q.ct]

\* the call fetched, failed with status 500 and stored nothing
Unresolved(q) ==
  /\ q.lat = "fail"
  /\ q.pc = "done"
  /\ q.status = 500
  /\ q.target = None
  /\ cache = q.seen

(* C7 as stated: a call that fetches returns and stores the id of the      *)
(* first release entry of the manifest, and fails with 500, storing        *)
(* nothing, when there is no release entry.                                *)
C7_FirstReleaseIsStored ==
  \A r \in Reqs :
    req[r].mres = "ok" =>
      IF HasRelease(manifest)
      THEN Resolved(req[r], manifest[FirstReleaseIndex(manifest)].id)
      ELSE Unresolved(req[r])

(* C7 amended: a call that fetches returns and stores the id of the first  *)
(* release entry of the manifest when that id is not empty, and fails with *)
(* 500, storing nothing, when the id is empty or there is no release entry.*)
C7_FirstNamedReleaseIsStored ==
  \A r \in Reqs :
    req[r].mres = "ok" =>
      IF HasRelease(manifest) /\ manifest[FirstReleaseIndex(manifest)].id # <<>>
      THEN Resolved(req[r], manifest[FirstReleaseIndex(manifest)].id)
      ELSE Unresolved(req[r])

\* a refresh of an expired entry from a manifest that lists a snapshot
\* before its first release, and another release after it
C7_Witness ==
  \E r \in Reqs :
    /\ req[r].mres = "ok"
    /\ Len(manifest) = 2
    /\ manifest[1].type = Snapshot
    /\ manifest[2] = Entry(V11, Release)
    /\ Expired(req[r].seen, req[r].ct)
    /\ req[r].target = V11
    /\ cache = [value |-> V11, timestamp |-> Epoch + CACHE_DURATION_SECONDS]

(* ---------------------- the Forge filter (SpecForge) ------------------- *)

\* v is t, a hyphen, and whatever follows
HasPrefix(v, t) ==
  /\ Len(v) >= Len(t) + 1
  /\ \A k \in 1..Len(t) : v[k] = t[k]
  /\ v[Len(t) + 1] = "-"

\* the entries of doc that have the prefix, in document order, each without
\* its first Len(t) + 1 characters when version_only is set
ExpectedForge(doc, t, version_only) ==
  LET keep == {i \in 1..Len(doc) : HasPrefix(doc[i], t)}
      Pos(k) == CHOOSE i \in keep : Cardinality({j \in keep : j <= i}) = k
  IN  [k \in 1..Cardinality(keep) |->
        IF version_only
        THEN [n \in 1..(Len(doc[Pos(k)]) - Len(t) - 1) |-> doc[Pos(k)][n + Len(t) + 1]]
        ELSE doc[Pos(k)]]

(* C8: get_forge_versions returns exactly the entries that start with     *)
(* "T-", in document order; with version_only each without that leading    *)
(* "T-" and nothing else removed, otherwise unmodified.  The entries       *)
(* 1.20.1-47.0.1, 1.19.2-45.0.0, 1.20.1-47.1.0 give 47.0.1, 47.1.0 for     *)
(* T = 1.20.1 with version_only.                                           *)
C8_ForgeFilter ==
  \A r \in Reqs :
    (req[r].ep = "forge" /\ req[r].pc = "done" /\ req[r].status = 200)
    => /\ req[r].body = ExpectedForge(docs.forge, req[r].target, req[r].vo)
       /\ (docs.forge = ExampleForgeDoc /\ req[r].target = V1201 /\ req[r].vo)
            => req[r].body = << <<"4", "7", ".", "0", ".", "1">>,
                                <<"4", "7", ".", "1", ".", "0">> >>

\* an entry in which "1-" occurs again after the prefix, stripped once
C8_Witness ==
  \E r \in Reqs :
    /\ req[r].ep = "forge" /\ req[r].pc = "done" /\ req[r].status = 200
    /\ req[r].mv = <<"1">>
    /\ req[r].vo
    /\ docs.forge = << <<"1", "1", "-">>, <<"1", "-", "1", "-", "1">> >>
    /\ req[r].body = << <<"1", "-", "1">> >>

(* ----------------------- the Quilt sort (SpecQuilt) -------------------- *)

Occurrences(l, x) == Cardinality({k \in 1..Len(l) : l[k] = x})

\* x is not empty and holds neither "-beta" nor "-pre"
IsStable(x) ==
  /\ x # <<>>
  /\ ~\E k \in 1..Len(x) : k + 4 <= Len(x) /\ SubSeq(x, k, k + 4) = BetaTag
  /\ ~\E k \in 1..Len(x) : k + 3 <= Len(x) /\ SubSeq(x, k, k + 3) = PreTag

Q0100 == <<"0", ".", "1", "0", ".", "0">>
Q090 == <<"0", ".", "9", ".", "0">>

(* C9: get_quilt_versions returns exactly the non-empty entries that hold  *)
(* neither "-beta" nor "-pre", each adjacent pair a, b of the output has   *)
(* a >= b under the numeric-aware comparison, and 0.10.0 comes before      *)
(* 0.9.0.                                                                  *)
C9_QuiltStableSorted ==
  \A r \in Reqs :
    (req[r].ep = "quilt" /\ req[r].pc = "done" /\ req[r].status = 200)
    => LET doc == docs.quilt
           out == req[r].body
       IN  /\ \A x \in QuiltEntries :
                Occurrences(out, x) = IF IsStable(x) THEN Occurrences(doc, x) ELSE 0
           /\ \A k \in 1..(Len(out) - 1) : CmpVersion(out[k], out[k + 1]) \in {0, 1}
           /\ \A a, b \in 1..Len(out) : (out[a] = Q0100 /\ out[b] = Q090) => a < b

\* 0.9.0 listed before 0.10.0, a beta between them
C9_Witness ==
  \E r \in Reqs :
    /\ req[r].ep = "quilt" /\ req[r].pc = "done" /\ req[r].status = 200
    /\ docs.quilt = << Q090, <<"0", ".", "1", "0", ".", "0", "-", "b", "e", "t", "a">>, Q0100 >>
    /\ req[r].body = << Q0100, Q090 >>

====
